---- MODULE Spec2Model ----
(***************************************************************************)
(* A model of calculator.py: the arithmetic calculator that prepares a     *)
(* text (preprocess_expression), parses it with ast.parse in "eval" mode   *)
(* and evaluates the tree with SafeEvaluator, an ast.NodeVisitor.          *)
(*                                                                         *)
(* Texts are sequences of one-character strings.  Python values are        *)
(* records [k, n, d]: k is the Python type, n/d the value (an int has      *)
(* d = 1, a float is the rational n/d in lowest terms, a complex keeps     *)
(* only whether it is zero (n = 0) or not (n = 1)).  Python ints are       *)
(* unbounded; the model follows a value only while |n| and d stay within   *)
(* IntCap, and an application whose result leaves that range is not        *)
(* continued (its outcome is outside the model).  The language level is    *)
(* Python 3.9 to 3.13: every literal is an ast.Constant node.              *)
(***************************************************************************)
EXTENDS Integers, Sequences, FiniteSets, TLC

\* ------------------------------------------------------------- bounds
\* largest single-digit literal of the input texts
MaxDigit == 4
\* largest magnitude of a numerator or denominator the model follows
IntCap == 10000
\* largest number of nodes of a tree handed directly to SafeEvaluator.visit
MaxNodes == 3

\* ------------------------------------------------------ Python values
Abs(i) == IF i < 0 THEN -i ELSE i

RECURSIVE Gcd(_, _)
Gcd(a, b) == IF b = 0 THEN a ELSE Gcd(b, a % b)

PyInt(i) == [k |-> "int", n |-> i, d |-> 1]
PyBool(b) == [k |-> "bool", n |-> IF b THEN 1 ELSE 0, d |-> 1]
PyFloat(num, den) ==
    LET s == IF den < 0 THEN -1 ELSE 1
        g == Gcd(Abs(num), Abs(den))
    IN [k |-> "float", n |-> (s * num) \div g, d |-> (s * den) \div g]
PyComplex(nonzero) == [k |-> "complex", n |-> IF nonzero THEN 1 ELSE 0, d |-> 1]
Str == [k |-> "str", n |-> 0, d |-> 1]
NoneValue == [k |-> "NoneType", n |-> 0, d |-> 1]

IsReal(v) == v.k \in {"int", "bool", "float"}
IsNumber(v) == v.k \in {"int", "float"}
IsZero(v) == v.n = 0

\* the outcome of applying a function: a value, a Python exception, or a
\* result outside the range the model follows
Ok(v) == [t |-> "ok", v |-> v, exc |-> "", msg |-> ""]
Exc(e, m) == [t |-> "exc", v |-> NoneValue, exc |-> e, msg |-> m]
OutOfModel == [t |-> "out", v |-> NoneValue, exc |-> "", msg |-> ""]

InRange(num, den) == Abs(num) <= IntCap /\ Abs(den) <= IntCap

\* the real number num/den as a Python int (exact is TRUE) or float
Real(exact, num, den) ==
    LET f == PyFloat(num, den)
    IN IF ~InRange(f.n, f.d) THEN OutOfModel
       ELSE IF exact THEN Ok(PyInt(f.n)) ELSE Ok(f)

BothInt(a, b) == a.k \in {"int", "bool"} /\ b.k \in {"int", "bool"}

\* floor of x / y for y # 0
FloorDiv(x, y) == IF y > 0 THEN x \div y ELSE (-x) \div (-y)
\* x - y * floor(x / y): the remainder with the sign of the divisor
FloorMod(x, y) == IF y > 0 THEN x % y ELSE -((-x) % (-y))

\* x ** e for e >= 0, stopped once the magnitude has left the range
RECURSIVE IntPowFrom(_, _, _)
IntPowFrom(x, e, acc) ==
    IF e = 0 \/ Abs(acc) > IntCap THEN acc ELSE IntPowFrom(x, e - 1, acc * x)

IntPow(x, e) ==
    IF e = 0 THEN 1
    ELSE IF x \in {0, 1} THEN x
    ELSE IF x = -1 THEN (IF e % 2 = 0 THEN 1 ELSE -1)
    ELSE IntPowFrom(x, e, 1)

\* ---------------------------------------------- the operator module
op_add(a, b) ==
    IF IsReal(a) /\ IsReal(b)
    THEN Real(BothInt(a, b), a.n * b.d + b.n * a.d, a.d * b.d)
    ELSE IF a.k = "complex" /\ IsZero(a) THEN Ok(PyComplex(~IsZero(b)))
    ELSE IF IsZero(b) THEN Ok(PyComplex(~IsZero(a)))
    ELSE OutOfModel

op_neg(a) ==
    IF IsReal(a) THEN Real(a.k # "float", -a.n, a.d) ELSE Ok(a)

op_pos(a) ==
    IF IsReal(a) THEN Real(a.k # "float", a.n, a.d) ELSE Ok(a)

op_sub(a, b) ==
    IF IsReal(a) /\ IsReal(b)
    THEN Real(BothInt(a, b), a.n * b.d - b.n * a.d, a.d * b.d)
    ELSE IF a.k = "complex" /\ IsZero(a) THEN Ok(PyComplex(~IsZero(b)))
    ELSE IF IsZero(b) THEN Ok(PyComplex(~IsZero(a)))
    ELSE OutOfModel

op_mul(a, b) ==
    IF IsReal(a) /\ IsReal(b)
    THEN Real(BothInt(a, b), a.n * b.n, a.d * b.d)
    ELSE Ok(PyComplex(~IsZero(a) /\ ~IsZero(b)))

op_truediv(a, b) ==
    IF IsZero(b) THEN Exc("ZeroDivisionError", "division by zero")
    ELSE IF IsReal(a) /\ IsReal(b) THEN Real(FALSE, a.n * b.d, a.d * b.n)
    ELSE Ok(PyComplex(~IsZero(a)))

op_floordiv(a, b) ==
    IF ~(IsReal(a) /\ IsReal(b))
    THEN Exc("TypeError", "unsupported operand type(s) for //")
    ELSE IF IsZero(b) THEN Exc("ZeroDivisionError", "division by zero")
    ELSE Real(BothInt(a, b), FloorDiv(a.n * b.d, a.d * b.n), 1)

op_mod(a, b) ==
    IF ~(IsReal(a) /\ IsReal(b))
    THEN Exc("TypeError", "unsupported operand type(s) for %")
    ELSE IF IsZero(b) THEN Exc("ZeroDivisionError", "division by zero")
    ELSE Real(BothInt(a, b), FloorMod(a.n * b.d, b.n * a.d), a.d * b.d)

\* a real base to an integral exponent e
RealPow(exact, a, e) ==
    IF e >= 0
    THEN LET pn == IntPow(a.n, e)
             pd == IntPow(a.d, e)
         IN IF ~InRange(pn, pd) THEN OutOfModel ELSE Real(exact, pn, pd)
    ELSE IF IsZero(a)
    THEN Exc("ZeroDivisionError", "0.0 cannot be raised to a negative power")
    ELSE LET pn == IntPow(a.d, -e)
             pd == IntPow(a.n, -e)
         IN IF ~InRange(pn, pd) THEN OutOfModel ELSE Real(FALSE, pn, pd)

op_pow(a, b) ==
    IF IsReal(a) /\ IsReal(b)
    THEN IF b.d = 1 THEN RealPow(BothInt(a, b), a, b.n)
         ELSE IF IsZero(a)
         THEN IF b.n < 0
              THEN Exc("ZeroDivisionError",
                       "0.0 cannot be raised to a negative power")
              ELSE Ok(PyFloat(0, 1))
         ELSE IF a.n < 0 THEN Ok(PyComplex(TRUE))
         ELSE IF a.n = a.d THEN Ok(PyFloat(1, 1))
         ELSE OutOfModel
    ELSE IF IsZero(b) THEN Ok(PyComplex(TRUE))
    ELSE IF ~IsZero(a) THEN Ok(PyComplex(TRUE))
    ELSE IF IsReal(b)
    THEN IF b.n < 0
         THEN Exc("ZeroDivisionError",
                  "0.0 to a negative or complex power")
         ELSE Ok(PyComplex(FALSE))
    ELSE OutOfModel

\* ------------------------------------------------------------ texts
\* a text is a sequence of one-character strings
Whitespace == {" ", "\t", "\n", "\r"}
Blank == {" ", "\t"}
DigitChars == <<"0", "1", "2", "3", "4", "5", "6", "7", "8", "9">>
Digit == {DigitChars[i] : i \in 1..10}
DigitVal(c) == (CHOOSE i \in 1..10 : DigitChars[i] = c) - 1
\* the letters of the model's texts: they spell the identifiers a, f, ...,
\* the keyword True and the string prefixes r, u, f, fr, rf, and no other
\* keyword of Python
Letter == {"a", "f", "T", "r", "u", "e"}
Quote == "'"

\* str.replace("^", "**")
\* str.replace with a count of one: only the first "^" becomes "**"
RECURSIVE Replace_first_only(_)
Replace_first_only(s) ==
    IF s = <<>> THEN <<>>
    ELSE IF Head(s) = "^" THEN <<"*", "*">> \o Tail(s)
    ELSE <<Head(s)>> \o Replace_first_only(Tail(s))

RECURSIVE Replace(_)
Replace(s) ==
    IF s = <<>> THEN <<>>
    ELSE IF Head(s) = "^" THEN <<"*", "*">> \o Replace(Tail(s))
    ELSE <<Head(s)>> \o Replace(Tail(s))

RECURSIVE LStrip(_)
LStrip(s) ==
    IF s # <<>> /\ Head(s) \in Whitespace THEN LStrip(Tail(s)) ELSE s

RECURSIVE RStrip(_)
RStrip(s) ==
    IF s # <<>> /\ s[Len(s)] \in Whitespace
    THEN RStrip(SubSeq(s, 1, Len(s) - 1)) ELSE s

\* str.strip()
Strip(s) == RStrip(LStrip(s))

preprocess_expression(expression) == Strip(Replace(expression))

\* ------------------------------------------------------------ trees
Constant(v) == [kind |-> "Constant", value |-> v]
Name(id) == [kind |-> "Name", id |-> id]
Call(func, args) == [kind |-> "Call", func |-> func, args |-> args]
Attribute(value, attr) == [kind |-> "Attribute", value |-> value, attr |-> attr]
Compare(left, comparators) ==
    [kind |-> "Compare", left |-> left, comparators |-> comparators]
Tuple(elts) == [kind |-> "Tuple", elts |-> elts]
Starred(value) == [kind |-> "Starred", value |-> value]
JoinedStr == [kind |-> "JoinedStr"]
BinOp(left, op, right) ==
    [kind |-> "BinOp", left |-> left, op |-> op, right |-> right]
UnaryOp(op, operand) == [kind |-> "UnaryOp", op |-> op, operand |-> operand]
Expression(body) == [kind |-> "Expression", body |-> body]
Expr(value) == [kind |-> "Expr", value |-> value]
\* a node without fields: an operator (Add, ...), a context (Load), ...
Bare(kind) == [kind |-> kind]

\* ------------------------------------------------------- the tokenizer
Tok(ty, s, v) == [ty |-> ty, s |-> s, v |-> v]
OpTok(s) == Tok("OP", s, NoneValue)
ErrTok == Tok("ERR", "", NoneValue)

\* the first position from i on whose character is not in S
RECURSIVE RunEnd(_, _, _)
RunEnd(s, i, S) ==
    IF i <= Len(s) /\ s[i] \in S THEN RunEnd(s, i + 1, S) ELSE i

\* the number the digits s[i], ..., s[j-1] spell, stopped once above IntCap
RECURSIVE DigitsVal(_, _, _)
DigitsVal(s, i, j) ==
    IF j <= i THEN 0
    ELSE LET r == DigitsVal(s, i, j - 1)
         IN IF r > IntCap THEN r ELSE 10 * r + DigitVal(s[j - 1])

At(s, i) == IF i >= 1 /\ i <= Len(s) THEN s[i] ELSE ""

\* the token of the number literal s[i..e3-1]: its integer part ends
\* before e1, its fraction before e2, and the digits of its exponent, if
\* any, run from ds to e3
NumberToken(s, i, e1, e2, ds, e3) ==
    LET hasDot == e2 > e1
        hasExp == e3 > e2
        neg == At(s, e2 + 1) = "-"
        ip == DigitsVal(s, i, e1)
        fl == IF hasDot THEN e2 - (e1 + 1) ELSE 0
        fp == IF hasDot THEN DigitsVal(s, e1 + 1, e2) ELSE 0
        scale == IntPow(10, fl)
        ex == IF hasExp THEN DigitsVal(s, ds, e3) ELSE 0
        ten == IF ex > IntCap THEN IntCap + 1 ELSE IntPow(10, ex)
        big == ip > IntCap \/ fp > IntCap \/ scale > IntCap \/ ten > IntCap
        num == ip * scale + fp
        leadingZero == ~hasDot /\ ~hasExp /\ e1 - i > 1 /\ s[i] = "0" /\ ip # 0
    IN IF At(s, e3) \in Letter \/ leadingZero THEN ErrTok
       ELSE IF big \/ num > IntCap THEN Tok("OUT", "", NoneValue)
       ELSE IF ~hasDot /\ ~hasExp THEN Tok("NUMBER", "", PyInt(ip))
       ELSE IF neg /\ scale * ten > IntCap THEN Tok("OUT", "", NoneValue)
       ELSE IF neg THEN Tok("NUMBER", "", PyFloat(num, scale * ten))
       ELSE IF num * ten > IntCap * scale THEN Tok("OUT", "", NoneValue)
       ELSE Tok("NUMBER", "", PyFloat(num * ten, scale))

\* the exponent of a number literal, from e2 on: e or E, a sign, digits
LexExponent(s, i, e1, e2) ==
    LET ds == IF At(s, e2 + 1) \in {"+", "-"} THEN e2 + 2 ELSE e2 + 1
        e3 == IF At(s, e2) \in {"e", "E"} THEN RunEnd(s, ds, Digit) ELSE e2
    IN IF At(s, e2) \in {"e", "E"} /\ e3 = ds
       THEN [tok |-> ErrTok, next |-> e3]
       ELSE [tok |-> NumberToken(s, i, e1, e2, ds, e3), next |-> e3]

\* the fraction of a number literal whose integer part ends before e1
LexFraction(s, i, e1) ==
    LexExponent(s, i, e1,
                IF At(s, e1) = "." THEN RunEnd(s, e1 + 1, Digit) ELSE e1)

\* a number literal starting at i: its token and the position after it
LexNumber(s, i) == LexFraction(s, i, RunEnd(s, i, Digit))

StringPrefix == {<<"r">>, <<"u">>}
FStringPrefix == {<<"f">>, <<"f", "r">>, <<"r", "f">>}

\* a string literal whose opening quote is at q, with prefix kind ty
StringEnd(s, ty, close) ==
    IF close > Len(s) THEN [tok |-> ErrTok, next |-> close]
    ELSE [tok |-> Tok(ty, "", Str), next |-> close + 1]

LexString(s, q, ty) ==
    StringEnd(s, ty, RunEnd(s, q + 1, {s[j] : j \in 1..Len(s)} \ {Quote}))

RECURSIVE Join(_)
Join(s) == IF s = <<>> THEN "" ELSE Head(s) \o Join(Tail(s))

\* a name, a keyword or a prefixed string literal starting at i
NameEnd(s, i, e) ==
    IF At(s, e) = Quote /\ SubSeq(s, i, e - 1) \in StringPrefix
    THEN LexString(s, e, "STRING")
    ELSE IF At(s, e) = Quote /\ SubSeq(s, i, e - 1) \in FStringPrefix
    THEN LexString(s, e, "FSTRING")
    ELSE [tok |-> Tok("NAME", Join(SubSeq(s, i, e - 1)), NoneValue),
          next |-> e]

LexName(s, i) == NameEnd(s, i, RunEnd(s, i, Letter \cup Digit))

OneCharOps == {"+", "-", "*", "/", "%", "^", "(", ")", "<", "~", "."}

\* the token starting at i (WS for a blank) and the position after it
LexOne(s, i) ==
    IF s[i] \in Blank THEN [tok |-> Tok("WS", "", NoneValue), next |-> i + 1]
    ELSE IF s[i] \in Digit \/ (s[i] = "." /\ At(s, i + 1) \in Digit)
    THEN LexNumber(s, i)
    ELSE IF s[i] \in Letter THEN LexName(s, i)
    ELSE IF s[i] = Quote THEN LexString(s, i, "STRING")
    ELSE IF <<s[i], At(s, i + 1)>> \in
                {<<"*", "*">>, <<"/", "/">>, <<"<", "<">>}
    THEN [tok |-> OpTok(s[i] \o s[i]), next |-> i + 2]
    ELSE IF s[i] \in OneCharOps THEN [tok |-> OpTok(s[i]), next |-> i + 1]
    ELSE [tok |-> ErrTok, next |-> Len(s) + 1]

RECURSIVE Tokenize(_, _)
Emit(s, r) ==
    (IF r.tok.ty = "WS" THEN <<>> ELSE <<r.tok>>) \o Tokenize(s, r.next)

\* the tokens of s from position i on
Tokenize(s, i) == IF i > Len(s) THEN <<>> ELSE Emit(s, LexOne(s, i))

\* ---------------------------------------------------------- the parser
\* Python's expression grammar over the tokens above.  The left-associative
\* binary rules, lowest precedence first:
\*   1 comparison   bitwise_xor ('<' bitwise_xor)*   one Compare for a chain
\*   2 bitwise_xor  bitwise_xor '^' shift_expr
\*   3 shift_expr   shift_expr '<<' sum
\*   4 sum          sum ('+' | '-') term
\*   5 term         term ('*' | '/' | '//' | '%') factor
\* and above them factor (unary + - ~), power (right-associative **),
\* primary (call, attribute) and atom.  Each rule returns whether it
\* matched, the node and the position after it.
Matched(node, p) == [ok |-> TRUE, node |-> node, p |-> p]
NoMatch == [ok |-> FALSE, node |-> Bare("None"), p |-> 0]

IsOp(toks, p, ops) ==
    p <= Len(toks) /\ toks[p].ty = "OP" /\ toks[p].s \in ops
IsTy(toks, p, tys) == p <= Len(toks) /\ toks[p].ty \in tys

\* the rules for sum and term the wrong way round
LevelOps_sum_above_term ==
    <<{"<"}, {"^"}, {"<<"}, {"*", "/", "//", "%"}, {"+", "-"}>>

LevelOps == <<{"<"}, {"^"}, {"<<"}, {"+", "-"}, {"*", "/", "//", "%"}>>

BinOpOf(s) ==
    CASE s = "+" -> "Add" [] s = "-" -> "Sub" [] s = "*" -> "Mult"
      [] s = "/" -> "Div" [] s = "//" -> "FloorDiv" [] s = "%" -> "Mod"
      [] s = "**" -> "Pow" [] s = "^" -> "BitXor" [] s = "<<" -> "LShift"
UnaryOpOf(s) ==
    CASE s = "+" -> "UAdd" [] s = "-" -> "USub" [] s = "~" -> "Invert"

\* adjacent string literals are one literal; with an f-string, a JoinedStr
RECURSIVE ParseStrings(_, _, _)
ParseStrings(toks, p, joined) ==
    IF IsTy(toks, p, {"STRING", "FSTRING"})
    THEN ParseStrings(toks, p + 1, joined \/ toks[p].ty = "FSTRING")
    ELSE Matched(IF joined THEN JoinedStr ELSE Constant(Str), p)

\* left, the operator s and the operand r as one node of level lv; a
\* comparison chain (chain is TRUE while left is its Compare) grows
Fold(left, chain, s, r, lv) ==
    IF ~r.ok THEN NoMatch
    ELSE IF lv > 1 THEN Matched(BinOp(left.node, BinOpOf(s), r.node), r.p)
    ELSE IF chain
    THEN Matched(Compare(left.node.left,
                         Append(left.node.comparators, r.node)), r.p)
    ELSE Matched(Compare(left.node, <<r.node>>), r.p)

WrapUnary(s, r) ==
    IF ~r.ok THEN NoMatch ELSE Matched(UnaryOp(UnaryOpOf(s), r.node), r.p)

WrapPow(left, r) ==
    IF ~r.ok THEN NoMatch ELSE Matched(BinOp(left.node, "Pow", r.node), r.p)

\* '(' expression ')' once the expression r has been parsed
Group(toks, r) ==
    IF r.ok /\ IsOp(toks, r.p, {")"}) THEN Matched(r.node, r.p + 1)
    ELSE NoMatch

\* func '(' argument ')' once the argument r has been parsed
WrapCall(toks, func, star, r) ==
    IF r.ok /\ IsOp(toks, r.p, {")"})
    THEN Matched(Call(func.node,
                      <<IF star THEN Starred(r.node) ELSE r.node>>), r.p + 1)
    ELSE NoMatch

RECURSIVE ParseLevel(_, _, _), ParseRest(_, _, _, _), ParseFactor(_, _),
          ParsePrimaryRest(_, _)

\* the binary rule of level lv
ParseLevel(toks, p, lv) ==
    IF lv > Len(LevelOps) THEN ParseFactor(toks, p)
    ELSE ParseRest(toks, ParseLevel(toks, p, lv + 1), FALSE, lv)

\* the operators and right operands that follow left at level lv
ParseRest(toks, left, chain, lv) ==
    IF ~left.ok THEN NoMatch
    ELSE IF IsOp(toks, left.p, LevelOps[lv])
    THEN ParseRest(toks,
                   Fold(left, chain, toks[left.p].s,
                        ParseLevel(toks, left.p + 1, lv + 1), lv),
                   TRUE, lv)
    ELSE left

\* atom: NUMBER | NAME | True | strings | '(' expression ')' | '(' ')'
ParseAtom(toks, p) ==
    IF IsTy(toks, p, {"NUMBER", "OUT"})
    THEN Matched(Constant(toks[p].v), p + 1)
    ELSE IF IsTy(toks, p, {"NAME"})
    THEN IF toks[p].s = "True" THEN Matched(Constant(PyBool(TRUE)), p + 1)
         ELSE Matched(Name(toks[p].s), p + 1)
    ELSE IF IsTy(toks, p, {"STRING", "FSTRING"})
    THEN ParseStrings(toks, p, FALSE)
    ELSE IF IsOp(toks, p, {"("})
    THEN IF IsOp(toks, p + 1, {")"}) THEN Matched(Tuple(<<>>), p + 2)
         ELSE Group(toks, ParseLevel(toks, p + 1, 1))
    ELSE NoMatch

\* primary: primary '.' NAME | primary '(' [argument] ')' | atom
ParsePrimaryRest(toks, left) ==
    IF ~left.ok THEN NoMatch
    ELSE IF IsOp(toks, left.p, {"."})
    THEN IF IsTy(toks, left.p + 1, {"NAME"}) /\ toks[left.p + 1].s # "True"
         THEN ParsePrimaryRest(toks,
                  Matched(Attribute(left.node, toks[left.p + 1].s),
                          left.p + 2))
         ELSE NoMatch
    ELSE IF IsOp(toks, left.p, {"("})
    THEN IF IsOp(toks, left.p + 1, {")"})
         THEN ParsePrimaryRest(toks,
                  Matched(Call(left.node, <<>>), left.p + 2))
         ELSE IF IsOp(toks, left.p + 1, {"*", "**"})
         THEN ParsePrimaryRest(toks,
                  WrapCall(toks, left, TRUE, ParseLevel(toks, left.p + 2, 1)))
         ELSE ParsePrimaryRest(toks,
                  WrapCall(toks, left, FALSE, ParseLevel(toks, left.p + 1, 1)))
    ELSE left

\* power: primary ['**' factor]
PowerRest(toks, left) ==
    IF ~left.ok THEN NoMatch
    ELSE IF IsOp(toks, left.p, {"**"})
    THEN WrapPow(left, ParseFactor(toks, left.p + 1))
    ELSE left

\* a factor whose sign belongs to the base of the power: ('+' | '-' | '~')
\* applied to the primary, and '**' to the signed primary
ParseFactor_sign_first(toks, p) ==
    IF IsOp(toks, p, {"+", "-", "~"})
    THEN PowerRest(toks,
                   WrapUnary(toks[p].s,
                             ParsePrimaryRest(toks, ParseAtom(toks, p + 1))))
    ELSE PowerRest(toks, ParsePrimaryRest(toks, ParseAtom(toks, p)))

\* factor: ('+' | '-' | '~') factor | power
ParseFactor(toks, p) ==
    IF IsOp(toks, p, {"+", "-", "~"})
    THEN WrapUnary(toks[p].s, ParseFactor(toks, p + 1))
    ELSE PowerRest(toks, ParsePrimaryRest(toks, ParseAtom(toks, p)))

\* the tree of the tokens, given the match r of the whole expression
TreeOf(toks, r) ==
    IF ~(r.ok /\ r.p = Len(toks) + 1)
    THEN Exc("SyntaxError", "invalid syntax")
    ELSE IF \E i \in 1..Len(toks) : toks[i].ty = "OUT" THEN OutOfModel
    ELSE [t |-> "ok", v |-> Expression(r.node), exc |-> "", msg |-> ""]

ParseTokens(toks) ==
    IF \E i \in 1..Len(toks) : toks[i].ty = "ERR"
    THEN Exc("SyntaxError", "invalid syntax")
    ELSE TreeOf(toks, ParseLevel(toks, 1, 1))

\* ast.parse(text, mode="eval"): the tree, a SyntaxError, or a literal the
\* model does not follow
ast_parse(text) == ParseTokens(Tokenize(text, 1))

\* ------------------------------------------------------ the evaluator
\* lines 10-23: the operator kinds the evaluator accepts, each with the
\* function of the operator module it stands for
BINARY_OPERATORS ==
    [Add |-> "add", Sub |-> "sub", Mult |-> "mul", Div |-> "truediv",
     FloorDiv |-> "floordiv", Mod |-> "mod", Pow |-> "pow"]

UNARY_OPERATORS == [UAdd |-> "pos", USub |-> "neg"]

\* calling a function of the operator module on values
Apply2(fn, a, b) ==
    IF a.k \in {"NoneType", "str"} \/ b.k \in {"NoneType", "str"}
    THEN Exc("TypeError", "unsupported operand type(s)")
    ELSE CASE fn = "add" -> op_add(a, b)
           [] fn = "sub" -> op_sub(a, b)
           [] fn = "mul" -> op_mul(a, b)
           [] fn = "truediv" -> op_truediv(a, b)
           [] fn = "floordiv" -> op_floordiv(a, b)
           [] fn = "mod" -> op_mod(a, b)
           [] fn = "pow" -> op_pow(a, b)

Apply1(fn, a) ==
    IF a.k \in {"NoneType", "str"}
    THEN Exc("TypeError", "bad operand type for unary operator")
    ELSE CASE fn = "pos" -> op_pos(a)
           [] fn = "neg" -> op_neg(a)

\* One application of a function of the operator module, and none
App(fn, args) == [fn |-> fn, args |-> args]
NoApp == App("", <<>>)

\* What a visitor method does next, given the values its calls of
\* self.visit have returned so far (vals): it calls self.visit on a child,
\* returns a value, or raises.  app is the application it made on the way.
VisitChild(node, field) ==
    [do |-> "visit", node |-> node, field |-> field, app |-> NoApp,
     v |-> NoneValue, exc |-> "", msg |-> ""]
Return(v, app) ==
    [do |-> "return", node |-> Bare("None"), field |-> "", app |-> app,
     v |-> v, exc |-> "", msg |-> ""]
Raise(exc, msg, app) ==
    [do |-> "raise", node |-> Bare("None"), field |-> "", app |-> app,
     v |-> NoneValue, exc |-> exc, msg |-> msg]
Leave(app) ==
    [do |-> "out", node |-> Bare("None"), field |-> "", app |-> app,
     v |-> NoneValue, exc |-> "", msg |-> ""]

\* what the method does with the result r of the application app
Result(app, r) ==
    IF r.t = "exc" THEN Raise(r.exc, r.msg, app)
    ELSE IF r.t = "out" THEN Leave(app)
    ELSE Return(r.v, app)

\* lines 37-40: the application inside try, except ZeroDivisionError
CatchZeroDivision(app, r) ==
    IF r.t = "exc" /\ r.exc = "ZeroDivisionError"
    THEN Raise("ValueError", "division by zero", app)
    ELSE Result(app, r)

\* lines 29-30
visit_Expression(node, vals) ==
    IF Len(vals) = 0 THEN VisitChild(node.body, "body")
    ELSE Return(vals[1], NoApp)

\* visit_BinOp with lines 33 and 34 the other way round: the right operand
\* is visited first
visit_BinOp_right_first(node, vals) ==
    IF Len(vals) = 0 THEN VisitChild(node.right, "right")
    ELSE IF Len(vals) = 1 THEN VisitChild(node.left, "left")
    ELSE IF node.op \in DOMAIN BINARY_OPERATORS
    THEN CatchZeroDivision(App(BINARY_OPERATORS[node.op],
                               <<vals[2], vals[1]>>),
                           Apply2(BINARY_OPERATORS[node.op], vals[2], vals[1]))
    ELSE Raise("ValueError", "invalid binary operation: " \o node.op, NoApp)

\* lines 32-41
visit_BinOp(node, vals) ==
    IF Len(vals) = 0 THEN VisitChild(node.left, "left")
    ELSE IF Len(vals) = 1 THEN VisitChild(node.right, "right")
    ELSE IF node.op \in DOMAIN BINARY_OPERATORS
    THEN CatchZeroDivision(App(BINARY_OPERATORS[node.op], vals),
                           Apply2(BINARY_OPERATORS[node.op], vals[1], vals[2]))
    ELSE Raise("ValueError", "invalid binary operation: " \o node.op, NoApp)

\* lines 43-48
visit_UnaryOp(node, vals) ==
    IF Len(vals) = 0 THEN VisitChild(node.operand, "operand")
    ELSE IF node.op \in DOMAIN UNARY_OPERATORS
    THEN Result(App(UNARY_OPERATORS[node.op], vals),
                Apply1(UNARY_OPERATORS[node.op], vals[1]))
    ELSE Raise("ValueError", "invalid unary operation: " \o node.op, NoApp)

\* isinstance(value, (int, float)): bool is a subclass of int
IsInstanceIntFloat(v) == v.k \in {"int", "bool", "float"}

\* lines 50-53
visit_Constant(node) ==
    IF IsInstanceIntFloat(node.value) THEN Return(node.value, NoApp)
    ELSE Raise("ValueError", "only numeric literals are allowed", NoApp)

\* lines 60-61
visit_Name(node) == Raise("ValueError", "names are not allowed", NoApp)

\* lines 63-64
visit_Call(node) ==
    Raise("ValueError", "function calls are not allowed", NoApp)

\* lines 67-84 (ast.Num is the class of no node from Python 3.8 on)
allowed_nodes ==
    {"Expression", "BinOp", "UnaryOp", "Constant", "Load", "Add", "Sub",
     "Mult", "Div", "FloorDiv", "Mod", "Pow", "UAdd", "USub", "Expr"}

\* the child nodes ast.NodeVisitor.generic_visit walks, in field order
Children(node) ==
    CASE node.kind = "Expr" -> <<node.value>>
      [] node.kind = "Expression" -> <<node.body>>
      [] node.kind = "UnaryOp" -> <<Bare(node.op), node.operand>>
      [] node.kind = "BinOp" -> <<node.left, Bare(node.op), node.right>>
      [] OTHER -> <<>>

\* generic_visit without the check of lines 85-86: it only walks the
\* children, as ast.NodeVisitor.generic_visit does
generic_visit_unchecked(node, vals) ==
    IF Len(vals) < Len(Children(node))
    THEN VisitChild(Children(node)[Len(vals) + 1], "child")
    ELSE Return(NoneValue, NoApp)

\* lines 66-87: the fallback for a node without a visit_ method
generic_visit(node, vals) ==
    IF node.kind \notin allowed_nodes
    THEN Raise("ValueError", "invalid construct: " \o node.kind, NoApp)
    ELSE IF Len(vals) < Len(Children(node))
    THEN VisitChild(Children(node)[Len(vals) + 1], "child")
    ELSE Return(NoneValue, NoApp)

\* ast.NodeVisitor.visit: the method visit_<class name>, else generic_visit
Visitor(node) ==
    IF node.kind \in {"Expression", "BinOp", "UnaryOp", "Constant", "Name",
                      "Call"}
    THEN "visit_" \o node.kind ELSE "generic_visit"

\* ------------------------------------------------------------- inputs
Chars(str) ==
    CASE str = "" -> <<>>
      [] str = "10" -> <<"1", "0">>
      [] str = ".5" -> <<".", "5">>
      [] str = "(-1)" -> <<"(", "-", "1", ")">>
      [] str = "(-1)**.5" -> <<"(", "-", "1", ")", "*", "*", ".", "5">>
      [] str = "f()" -> <<"f", "(", ")">>
      [] str = "'a'" -> <<"'", "a", "'">>
      [] str = "True" -> <<"T", "r", "u", "e">>
      [] str = "//" -> <<"/", "/">>
      [] str = "**" -> <<"*", "*">>
      [] str = "<<" -> <<"<", "<">>
      [] OTHER -> <<str>>

\* the single-digit literals 0 .. MaxDigit
DigitOperands == {<<DigitChars[i + 1]>> : i \in 0..MaxDigit}
\* operand texts: literals, a parenthesised negative, an identifier, a
\* call, a string, a keyword constant, and a missing operand
Operands ==
    DigitOperands \cup
    {Chars(x) : x \in {"10", ".5", "(-1)", "(-1)**.5", "a", "f()", "'a'",
                       "True", ""}}
Operators ==
    {Chars(x) : x \in {"+", "-", "*", "/", "//", "%", "**", "^", "<", "<<"}}
\* the operands and operators of the texts with two operators
Operands3 == DigitOperands \cup {Chars("a")}
Operators3 == {Chars(x) : x \in {"+", "*", "/", "**", "^"}}
Operators4 == {Chars(x) : x \in {"+", "*", "**"}}
Pads == {<<>>, <<" ">>}
Signs == {<<>>, <<"-">>}

\* the texts given to evaluate_expression: one operand; two operands; three
\* operands, the first two in parentheses or not; three digits spaced out
Texts ==
    {q \o u \o a \o q :
        q \in Pads, u \in Signs \cup {<<"~">>}, a \in Operands}
    \cup {q \o u \o a \o p \o o \o p \o b \o q :
            p \in Pads, q \in Pads, u \in Signs, a \in Operands,
            o \in Operators, b \in Operands}
    \cup {a \o o1 \o b \o o2 \o c :
            a \in Operands3, b \in Operands3, c \in Operands3,
            o1 \in Operators3, o2 \in Operators3}
    \cup {<<"(">> \o a \o o1 \o b \o <<")">> \o o2 \o c :
            a \in Operands3, b \in Operands3, c \in Operands3,
            o1 \in Operators3, o2 \in Operators3}
    \cup {a \o <<" ">> \o o1 \o <<" ">> \o b \o <<" ">> \o o2
              \o <<" ">> \o c :
            a \in DigitOperands, b \in DigitOperands, c \in DigitOperands,
            o1 \in Operators4, o2 \in Operators4}
    \cup {<<"(">> \o a \o <<" ">> \o o1 \o <<" ">> \o b \o <<")", " ">>
              \o o2 \o <<" ">> \o c :
            a \in DigitOperands, b \in DigitOperands, c \in DigitOperands,
            o1 \in Operators4, o2 \in Operators4}

NoTree == Bare("None")
NoText == <<"?">>

Leaves ==
    {Constant(PyInt(i)) : i \in {-1, 0, 1, 2}}
    \cup {Constant(PyFloat(1, 2)), Constant(PyBool(TRUE)), Constant(Str),
          Constant(NoneValue), Constant(PyComplex(TRUE)),
          Name("a"), Call(Name("f"), <<>>), Attribute(Name("a"), "e"),
          Bare("Lambda"), Bare("Add"), Bare("Load")}
BinaryKinds ==
    {"Add", "Sub", "Mult", "Div", "FloorDiv", "Mod", "Pow", "BitXor"}
UnaryKinds == {"UAdd", "USub", "Invert"}

\* the trees of exactly n nodes
RECURSIVE NodesOfSize(_)
NodesOfSize(n) ==
    IF n <= 0 THEN {}
    ELSE IF n = 1 THEN Leaves
    ELSE {UnaryOp(op, x) : op \in UnaryKinds, x \in NodesOfSize(n - 1)}
         \cup {Expr(x) : x \in NodesOfSize(n - 1)}
         \cup {Expression(x) : x \in NodesOfSize(n - 1)}
         \cup UNION {{BinOp(l, op, r) :
                         op \in BinaryKinds, l \in NodesOfSize(i),
                         r \in NodesOfSize(n - 1 - i)} : i \in 1..(n - 2)}

\* the nodes handed directly to SafeEvaluator.visit
Nodes == UNION {NodesOfSize(n) : n \in 1..MaxNodes}

\* -------------------------------------------------------------- state
VARIABLES
    expression,   \* the argument of evaluate_expression
    prepared,     \* line 101
    parsed,       \* line 103
    stack,        \* the calls of SafeEvaluator.visit in progress
    outcome,      \* what the call returned or raised to its caller
    applied,      \* the applications made so far, in order
    events,       \* the visits entered and left and the applications, in order
    pc

vars == <<expression, prepared, parsed, stack, outcome, applied, events, pc>>

Pending == [t |-> "pending", v |-> NoneValue, exc |-> "", msg |-> ""]
Frame(node, path) == [node |-> node, path |-> path, vals |-> <<>>]
Top == stack[Len(stack)]
Event(ev, path) == [ev |-> ev, path |-> path]
\* the events so far, with the application the running method has made
Noted(app) ==
    IF app = NoApp THEN events ELSE Append(events, Event("apply", Top.path))

\* evaluate_expression(expression) has been called
Init ==
    /\ expression \in Texts
    /\ prepared = NoText
    /\ parsed = NoTree
    /\ stack = <<>>
    /\ outcome = Pending
    /\ applied = <<>>
    /\ events = <<>>
    /\ pc = "preprocess"

\* SafeEvaluator().visit(node) has been called
InitVisit ==
    /\ expression = NoText
    /\ prepared = NoText
    /\ parsed \in Nodes
    /\ stack = <<Frame(parsed, <<>>)>>
    /\ outcome = Pending
    /\ applied = <<>>
    /\ events = <<Event("enter", <<>>)>>
    /\ pc = "visit"

\* line 101
evaluate_expression_prepare ==
    /\ pc = "preprocess"
    /\ prepared' = preprocess_expression(expression)
    /\ pc' = "parse"
    /\ UNCHANGED <<expression, parsed, stack, outcome, applied, events>>

\* lines 102-107: the parse, its SyntaxError turned into a ValueError, and
\* the call of evaluator.visit(parsed)
Parsed(r) ==
    /\ r.t # "out"
    /\ IF r.t = "ok"
       THEN /\ parsed' = r.v
            /\ stack' = <<Frame(r.v, <<>>)>>
            /\ events' = <<Event("enter", <<>>)>>
            /\ pc' = "visit"
            /\ UNCHANGED outcome
       ELSE /\ outcome' = Exc("ValueError", "syntax error: " \o r.msg)
            /\ pc' = "done"
            /\ UNCHANGED <<parsed, stack, events>>

evaluate_expression_parse ==
    /\ pc = "parse"
    /\ Parsed(ast_parse(prepared))
    /\ UNCHANGED <<expression, prepared, applied>>

\* the effect of one step of the visitor method running on top of the stack
Do(step) ==
    /\ step.do # "out"
    /\ applied' = IF step.app = NoApp THEN applied
                  ELSE Append(applied, step.app)
    /\ CASE step.do = "visit" ->
              LET path == Append(Top.path, step.field)
              IN /\ stack' = Append(stack, Frame(step.node, path))
                 /\ events' = Append(Noted(step.app), Event("enter", path))
                 /\ UNCHANGED <<outcome, pc>>
         [] step.do = "return" ->
              /\ events' = Append(Noted(step.app), Event("return", Top.path))
              /\ IF Len(stack) = 1
                 THEN /\ stack' = <<>>
                      /\ outcome' = Ok(step.v)
                      /\ pc' = "done"
                 ELSE /\ stack' =
                           [SubSeq(stack, 1, Len(stack) - 1)
                              EXCEPT ![Len(stack) - 1].vals = Append(@, step.v)]
                      /\ UNCHANGED <<outcome, pc>>
         [] step.do = "raise" ->
              /\ events' = Append(Noted(step.app), Event("raise", Top.path))
              /\ stack' = <<>>
              /\ outcome' = Exc(step.exc, step.msg)
              /\ pc' = "done"
    /\ UNCHANGED <<expression, prepared, parsed>>

Running(method) ==
    pc = "visit" /\ stack # <<>> /\ Visitor(Top.node) = method

step_visit_Expression ==
    Running("visit_Expression") /\ Do(visit_Expression(Top.node, Top.vals))
step_visit_BinOp ==
    Running("visit_BinOp") /\ Do(visit_BinOp(Top.node, Top.vals))
step_visit_UnaryOp ==
    Running("visit_UnaryOp") /\ Do(visit_UnaryOp(Top.node, Top.vals))
step_visit_Constant ==
    Running("visit_Constant") /\ Do(visit_Constant(Top.node))
step_visit_Name == Running("visit_Name") /\ Do(visit_Name(Top.node))
step_visit_Call == Running("visit_Call") /\ Do(visit_Call(Top.node))
step_generic_visit ==
    Running("generic_visit") /\ Do(generic_visit(Top.node, Top.vals))

Visit ==
    \/ step_visit_Expression
    \/ step_visit_BinOp
    \/ step_visit_UnaryOp
    \/ step_visit_Constant
    \/ step_visit_Name
    \/ step_visit_Call
    \/ step_generic_visit

Next ==
    \/ evaluate_expression_prepare
    \/ evaluate_expression_parse
    \/ Visit

Spec == Init /\ [][Next]_vars

SpecVisit == InitVisit /\ [][Visit]_vars

\* ------------------------------------------------------------- claims
\* the functions that are entries of BINARY_OPERATORS and UNARY_OPERATORS
TableFunctions ==
    {BINARY_OPERATORS[k] : k \in DOMAIN BINARY_OPERATORS}
    \cup {UNARY_OPERATORS[k] : k \in DOMAIN UNARY_OPERATORS}

\* the tree holds, at some position, a node outside the allow-list: a node
\* or operator whose class is not in allowed_nodes, or a string literal
RECURSIVE HasDisallowed(_)
HasDisallowed(node) ==
    CASE node.kind = "Expression" -> HasDisallowed(node.body)
      [] node.kind = "BinOp" ->
            \/ node.op \notin allowed_nodes
            \/ HasDisallowed(node.left)
            \/ HasDisallowed(node.right)
      [] node.kind = "UnaryOp" ->
            node.op \notin allowed_nodes \/ HasDisallowed(node.operand)
      [] node.kind = "Constant" -> node.value.k = "str"
      [] OTHER -> node.kind \notin allowed_nodes

\* C1: when the parsed tree of the text holds a node outside the allow-list
\* (an identifier, a call, an attribute access, a comparison, a collection
\* or string literal, an operator that is not in the tables), the call of
\* evaluate_expression never returns a value and ends with an error; and
\* in every call, only entries of BINARY_OPERATORS and UNARY_OPERATORS are
\* ever applied.  (The keyword constant True is a Constant node, an
\* allowed class: what the evaluator does with it is the subject of C8.)
C1_DisallowedNodeRejected ==
    /\ \A i \in DOMAIN applied : applied[i].fn \in TableFunctions
    /\ (parsed # NoTree /\ HasDisallowed(parsed)) =>
          /\ outcome.t # "ok"
          /\ pc = "done" => outcome.t = "exc"

\* an identifier is met after an operator has been applied: "1*2+a"
C1_Witness ==
    /\ pc = "done"
    /\ parsed # NoTree /\ HasDisallowed(parsed)
    /\ Len(applied) >= 1
    /\ outcome = Exc("ValueError", "names are not allowed")

\* C2: a node handed to SafeEvaluator.visit that is no literal, no unary
\* and no binary operation (nor the Expression that wraps the parsed tree)
\* makes the visit fail: the fallback generic_visit never completes with a
\* result.  The claim says more, that the error is 'invalid construct:
\* <kind>'; already this part of it does not hold of the code.
C2_DispatchClosed ==
    (pc = "done"
        /\ parsed.kind \notin {"Constant", "UnaryOp", "BinOp", "Expression"})
    => outcome.t = "exc"

\* the fallback has returned None for an operator node
C2_Witness ==
    /\ pc = "done"
    /\ parsed = Bare("Add")
    /\ outcome = Ok(NoneValue)

\* the application divides by a zero: true division, floor division or
\* modulo with a right operand that is a number equal to zero
DividesByZero(app) ==
    /\ app.fn \in {"truediv", "floordiv", "mod"}
    /\ IsReal(app.args[2]) /\ IsZero(app.args[2])

\* C3: a true division, floor division or modulo whose right operand has
\* evaluated to zero ends the evaluation with the ValueError 'division by
\* zero' of visit_BinOp, whatever the value of the left operand
C3_DivisionByZero ==
    \A i \in DOMAIN applied :
        DividesByZero(applied[i]) =>
            /\ pc = "done"
            /\ outcome = Exc("ValueError", "division by zero")

\* a division of a number by zero has been reported as the claim says
C3_Witness ==
    /\ pc = "done"
    /\ applied = <<App("truediv", <<PyInt(10), PyInt(0)>>)>>
    /\ outcome = Exc("ValueError", "division by zero")

\* C4: a call of evaluate_expression returns one number, an int or a
\* float, or raises the ValueError of a syntax error or of an evaluation
\* error; nothing else is returned or raised
C4_NumberOrValueError ==
    pc = "done" =>
        \/ outcome.t = "ok" /\ outcome.v.k \in {"int", "float"}
        \/ outcome.t = "exc" /\ outcome.exc = "ValueError"

\* the power of a negative number has been returned as a complex number
C4_Witness ==
    /\ pc = "done"
    /\ expression = <<"(", "-", "1", ")", "*", "*", ".", "5">>
    /\ outcome = Ok(PyComplex(TRUE))

\* the text of the literal i, and of three operands and two operators, bare
\* or spaced out, the first two operands in parentheses or not
Lit(i) == <<DigitChars[i + 1]>>
Sp == <<" ">>
Three(a, o1, b, o2, c) ==
    {Lit(a) \o o1 \o Lit(b) \o o2 \o Lit(c),
     Lit(a) \o Sp \o o1 \o Sp \o Lit(b) \o Sp \o o2 \o Sp \o Lit(c)}
Grouped(a, o1, b, o2, c) ==
    {<<"(">> \o Lit(a) \o o1 \o Lit(b) \o <<")">> \o o2 \o Lit(c),
     <<"(">> \o Lit(a) \o Sp \o o1 \o Sp \o Lit(b) \o <<")">> \o Sp
         \o o2 \o Sp \o Lit(c)}

\* the texts "a + b * c" with the value a + (b * c), and the texts
\* "(a + b) * c" with the value (a + b) * c
SumOfProduct ==
    UNION {{<<t, a + b * c>> : t \in Three(a, <<"+">>, b, <<"*">>, c)} :
              a, b, c \in 0..MaxDigit}
ProductOfSum ==
    UNION {{<<t, (a + b) * c>> : t \in Grouped(a, <<"+">>, b, <<"*">>, c)} :
              a, b, c \in 0..MaxDigit}

\* C5: for all literals a, b, c the text "a + b * c" evaluates to
\* a + (b * c) and the text "(a + b) * c" to (a + b) * c, written with or
\* without spaces; so "2 + 3 * 4" gives 14 and "(2 + 3) * 4" gives 20
C5_Precedence ==
    pc = "done" =>
        \A case \in SumOfProduct \cup ProductOfSum :
            expression = case[1] => outcome = Ok(PyInt(case[2]))

\* "2 + 3 * 4" has been evaluated to 14
C5_Witness ==
    /\ pc = "done"
    /\ expression = <<"2", " ", "+", " ", "3", " ", "*", " ", "4">>
    /\ outcome = Ok(PyInt(14))

\* the texts "a ** b ** c" with the value a ** (b ** c) where the model
\* follows it, and the texts "-a ** b" with the value -(a ** b)
PowerOfPower ==
    UNION {{<<t, IntPow(a, IntPow(b, c))>> :
               t \in Three(a, <<"*", "*">>, b, <<"*", "*">>, c)} :
              a, b, c \in 0..MaxDigit}
MinusPower ==
    UNION {{<<<<"-">> \o Lit(a) \o sp \o <<"*", "*">> \o sp \o Lit(b),
              -IntPow(a, b)>> : sp \in Pads} : a, b \in 0..MaxDigit}

\* C6: for all literals a, b, c the text "a ** b ** c" evaluates to
\* a ** (b ** c) and the text "-a ** b" to -(a ** b), written with or
\* without spaces; so "2 ** 3 ** 2" gives 512 and "-2 ** 2" gives -4
C6_PowerRightAssociative ==
    pc = "done" =>
        \A case \in PowerOfPower \cup MinusPower :
            expression = case[1] => outcome = Ok(PyInt(case[2]))

\* "2 ** 3 ** 2" has been evaluated to 512
C6_Witness ==
    /\ pc = "done"
    /\ expression = <<"2", " ", "*", "*", " ", "3", " ", "*", "*", " ", "2">>
    /\ outcome = Ok(PyInt(512))

\* "-2 ** 2" has been evaluated to -4
C6_WitnessSign ==
    /\ pc = "done"
    /\ expression = <<"-", "2", " ", "*", "*", " ", "2">>
    /\ outcome = Ok(PyInt(-4))

\* the text with each caret written as the power operator
Power(ch) == IF ch = "^" THEN <<"*", "*">> ELSE <<ch>>
RECURSIVE WithPower(_)
WithPower(text) ==
    IF text = <<>> THEN <<>>
    ELSE Power(Head(text)) \o WithPower(Tail(text))

\* the text was parsed as r says: to the tree held in parsed, or rejected
\* with the syntax error held in outcome
ParsedAs(r) ==
    IF r.t = "ok" THEN parsed = r.v
    ELSE /\ r.t = "exc"
         /\ parsed = NoTree
         /\ outcome = Exc("ValueError", "syntax error: " \o r.msg)

\* C7: the prepared text holds no "^" and no leading or trailing
\* whitespace, and is the stripped text with each "^" written "**"; a text
\* with carets is evaluated as the same text with each "^" written "**" is:
\* both are parsed to the same tree, which decides the outcome, or both
\* are rejected by the parse alike; and "2 ^ 10" gives 1024
C7_CaretIsPower ==
    /\ pc # "preprocess" =>
          /\ \A i \in DOMAIN prepared : prepared[i] # "^"
          /\ prepared # <<>> =>
                /\ prepared[1] \notin Whitespace
                /\ prepared[Len(prepared)] \notin Whitespace
          /\ prepared = Strip(WithPower(expression))
    /\ (pc = "done" /\ \E i \in DOMAIN expression : expression[i] = "^") =>
          ParsedAs(ast_parse(preprocess_expression(WithPower(expression))))
    /\ (pc = "done" /\ expression = <<"2", " ", "^", " ", "1", "0">>) =>
          outcome = Ok(PyInt(1024))

\* "2 ^ 10" has been evaluated to 1024
C7_Witness ==
    /\ pc = "done"
    /\ expression = <<"2", " ", "^", " ", "1", "0">>
    /\ prepared = <<"2", " ", "*", "*", " ", "1", "0">>
    /\ outcome = Ok(PyInt(1024))

\* a text with a caret and spaces around it has been prepared
C7_WitnessStripped ==
    /\ pc = "parse"
    /\ expression = <<" ", "2", "^", "1", "0", " ">>
    /\ prepared = <<"2", "*", "*", "1", "0">>

\* C8: the visit of a literal node returns its value unchanged when the
\* value is an int or a float, and for a value of any other kind (string,
\* boolean, None, complex) raises 'only numeric literals are allowed'
C8_LiteralNumericOnly ==
    (pc = "done" /\ parsed.kind = "Constant") =>
        IF parsed.value.k \in {"int", "float"}
        THEN outcome = Ok(parsed.value)
        ELSE outcome = Exc("ValueError", "only numeric literals are allowed")

\* the literal True has been returned as a value
C8_Witness ==
    /\ pc = "done"
    /\ parsed = Constant(PyBool(TRUE))
    /\ outcome = Ok(PyBool(TRUE))

\* the node of the tree at the end of a path of field names
RECURSIVE NodeAt(_, _)
NodeAt(node, path) ==
    IF path = <<>> THEN node ELSE NodeAt(node[Head(path)], Tail(path))

IsPrefix(p, q) == Len(p) <= Len(q) /\ SubSeq(q, 1, Len(p)) = p
Parent(path) == SubSeq(path, 1, Len(path) - 1)
Field(path) == path[Len(path)]

\* the error an operand that is an identifier, a call or a string raises
FailingOperand(node) ==
    \/ node.kind \in {"Name", "Call"}
    \/ node.kind = "Constant" /\ node.value.k = "str"
OperandError(node) ==
    CASE node.kind = "Name" -> Exc("ValueError", "names are not allowed")
      [] node.kind = "Call" ->
            Exc("ValueError", "function calls are not allowed")
      [] node.kind = "Constant" ->
            Exc("ValueError", "only numeric literals are allowed")
NumberOperand(node) ==
    node.kind = "Constant" /\ node.value.k \in {"int", "float"}

\* C9: in every binary operation the visit of the right operand is entered
\* only after the left operand has returned its value, with every event of
\* the left operand before it; the operator function is applied only after
\* both operands have returned, the left one first; an operand that raises
\* ends the evaluation with no application at that operation.  So when both
\* operands of the text fail the error is the left operand's, and when only
\* the right one fails the error is its own and nothing has been applied.
C9_LeftBeforeRight ==
    /\ \A j \in DOMAIN events :
          (events[j].ev = "enter" /\ events[j].path # <<>>
               /\ Field(events[j].path) = "right") =>
             /\ j > 1
             /\ events[j - 1] =
                    Event("return", Append(Parent(events[j].path), "left"))
             /\ \A i \in DOMAIN events :
                    IsPrefix(Append(Parent(events[j].path), "left"),
                             events[i].path) => i < j
    /\ \A k \in DOMAIN events :
          (events[k].ev = "apply"
               /\ NodeAt(parsed, events[k].path).kind = "BinOp") =>
             \E i, j \in 1..(k - 1) :
                /\ i < j
                /\ events[i] = Event("return", Append(events[k].path, "left"))
                /\ events[j] = Event("return", Append(events[k].path, "right"))
    /\ \A k \in DOMAIN events :
          (events[k].ev = "raise" /\ events[k].path # <<>>
               /\ Field(events[k].path) \in {"left", "right"}) =>
             /\ k = Len(events)
             /\ \A i \in DOMAIN events :
                    events[i] # Event("apply", Parent(events[k].path))
             /\ Field(events[k].path) = "left" =>
                    \A i \in DOMAIN events :
                       events[i] #
                          Event("enter", Append(Parent(events[k].path), "right"))
    /\ (pc = "done" /\ parsed.kind = "Expression"
            /\ parsed.body.kind = "BinOp") =>
          /\ FailingOperand(parsed.body.left) =>
                outcome = OperandError(parsed.body.left) /\ applied = <<>>
          /\ (NumberOperand(parsed.body.left)
                  /\ FailingOperand(parsed.body.right)) =>
                outcome = OperandError(parsed.body.right) /\ applied = <<>>

\* both operands of "a+f()" fail, and the error is the identifier's
C9_Witness ==
    /\ pc = "done"
    /\ parsed = Expression(BinOp(Name("a"), "Add", Call(Name("f"), <<>>)))
    /\ outcome = Exc("ValueError", "names are not allowed")

\* only the right operand of "1+a" fails
C9_WitnessRight ==
    /\ pc = "done"
    /\ parsed = Expression(BinOp(Constant(PyInt(1)), "Add", Name("a")))
    /\ outcome = Exc("ValueError", "names are not allowed")
    /\ applied = <<>>

\* the token is an identifier or the name of a called function, a string
\* or a comparison
ForbiddenToken(tok) ==
    \/ tok.ty = "NAME" /\ tok.s # "True"
    \/ tok.ty \in {"STRING", "FSTRING"}
    \/ tok.ty = "OP" /\ tok.s = "<"
HasForbiddenToken(toks) == \E i \in DOMAIN toks : ForbiddenToken(toks[i])

\* C10: a text that holds an identifier, a call, a string or a comparison
\* is rejected before any evaluation: the call fails and no operator
\* function has been applied.  The claim says more: that the error is the
\* syntax error raised around ast.parse, and the same of a boolean token
\* (the literal True is the subject of C8); already this part of it does
\* not hold of the code.
C10_RejectedBeforeEvaluation ==
    (pc = "done" /\ HasForbiddenToken(Tokenize(prepared, 1))) =>
        /\ outcome.t = "exc"
        /\ applied = <<>>

\* "1/0+a" has been evaluated as far as the division, whose error is
\* reported, and the identifier has not been looked at
C10_Witness ==
    /\ pc = "done"
    /\ expression = <<"1", "/", "0", "+", "a">>
    /\ applied = <<App("truediv", <<PyInt(1), PyInt(0)>>)>>
    /\ outcome = Exc("ValueError", "division by zero")

====
